---- MODULE Spec2Model ----
(***************************************************************************)
(* A model of the pyrpn RPN calculator: the Calculator engine              *)
(* (src/Calculator.py), the SimpleCalculator variant                       *)
(* (src/SimpleCalculator.py) and the press/shift handling of the Tk        *)
(* Application (src/pyrpn.py).                                             *)
(*                                                                         *)
(* Text is a sequence of one-character strings.  Python's None is the      *)
(* value None below, so that None and the empty string "" stay distinct    *)
(* as they are in the source.                                              *)
(*                                                                         *)
(* Numbers.  The source stores Python floats.  The model stores exact      *)
(* decimal numbers  [neg, w, f]  meaning  (+/-)(w + f / 10^PRECISION), the *)
(* domain that contains every number the entry buffer can denote, and on   *)
(* which +, - and negation are computed exactly (binary rounding of the    *)
(* float type is not modelled).  A result that is no such decimal (an      *)
(* irrational square root) is kept as the term  fn(x)  of its decimal      *)
(* argument x: the field fn names the function, "" for a plain decimal,    *)
(* and "g f" names the function g applied to the term f(x).                *)
(***************************************************************************)
EXTENDS Integers, Sequences, FiniteSets, TLC

VARIABLES
    stack,      \* Calculator.stack: the registers, X last
    entry,      \* Calculator.entry: None or the text being typed
    memory,     \* Calculator.memory
    angles,     \* Calculator.angles
    hyper,      \* Calculator.hyper
    err,        \* Application.err: TRUE when the indicator shows 'E'
    shifted,    \* Application.shifted
    shiftLock,  \* Application.shiftLock
    disp,       \* what the CalcDisplay widgets were last told
    draws,      \* drawStack calls made by the handler that ran last
    last,       \* the handler that ran last, what it returned or raised,
                \* and (ago) the button and the modes of the handler before
    prev,       \* the state that handler started from
    base,       \* the stack on which the entry last typed was started
    saved,      \* position -> the X register at the last save to it, else 0
    presses     \* handlers run so far

vars == <<stack, entry, memory, angles, hyper, err, shifted, shiftLock,
          disp, draws, last, prev, base, saved, presses>>

-----------------------------------------------------------------------------
(* Program constants *)

PRECISION == 8

STACK == 4

MEMORY == 4

RAD == 0

DEG == 1

GRAD == 2

None == <<"None">>

\* the memory positions read: those of the displays, and one beyond
Positions == 1..(MEMORY + 1)

(* Bounds of the exploration *)

MaxPresses == 2

MaxKeys == 4

MaxTrig == 4

-----------------------------------------------------------------------------
(* Numbers *)

RECURSIVE Pow10(_)
Pow10(n) == IF n = 0 THEN 1 ELSE 10 * Pow10(n - 1)

\* 10 ** calc.PRECISION
Threshold == Pow10(PRECISION)

Dec(neg, w, f) == [fn |-> "", neg |-> neg /\ (w # 0 \/ f # 0), w |-> w, f |-> f]

Zero == Dec(FALSE, 0, 0)

IsDec(v) == v.fn = ""

IsZero(v) == IsDec(v) /\ v.w = 0 /\ v.f = 0

\* the term fn(x) of a decimal x
Term(fn, x) == [x EXCEPT !.fn = fn]

\* the term g(v) of a decimal or a term v
App(g, v) == [v EXCEPT !.fn = IF @ = "" THEN g ELSE g \o " " \o @]

\* |v| >= w + f / 10^PRECISION, for the decimal argument of a term v
MagAtLeast(v, w, f) == v.w > w \/ (v.w = w /\ v.f >= f)

MagLess(a, b) == a.w < b.w \/ (a.w = b.w /\ a.f < b.f)

MagAdd(a, b) ==
    LET f == a.f + b.f
    IN  IF f >= Threshold
        THEN [w |-> a.w + b.w + 1, f |-> f - Threshold]
        ELSE [w |-> a.w + b.w, f |-> f]

\* a - b for magnitudes with b <= a
MagSub(a, b) ==
    IF a.f >= b.f
    THEN [w |-> a.w - b.w, f |-> a.f - b.f]
    ELSE [w |-> a.w - b.w - 1, f |-> a.f + Threshold - b.f]

\* float addition a + b
DecAdd(a, b) ==
    IF a.neg = b.neg
    THEN LET m == MagAdd(a, b) IN Dec(a.neg, m.w, m.f)
    ELSE IF MagLess(a, b)
         THEN LET m == MagSub(b, a) IN Dec(b.neg, m.w, m.f)
         ELSE LET m == MagSub(a, b) IN Dec(a.neg, m.w, m.f)

\* float negation -a
DecNeg(a) == Dec(~a.neg, a.w, a.f)

\* float subtraction a - b
DecSub(a, b) == DecAdd(a, DecNeg(b))

\* the largest r in lo..hi with r * r <= n  (lo * lo <= n)
RECURSIVE RootBetween(_, _, _)
RootBetween(n, lo, hi) ==
    IF lo >= hi THEN lo
    ELSE LET mid == (lo + hi + 1) \div 2
         IN  IF mid * mid <= n THEN RootBetween(n, mid, hi)
             ELSE RootBetween(n, lo, mid - 1)

\* the integer square root; 46340 is the largest root of a 32-bit integer
ISqrt(n) == RootBetween(n, 0, 46340)

\* value >= 10 ** calc.PRECISION
AtLeastThreshold(v) ==
    CASE v.fn = ""     -> ~v.neg /\ v.w >= Threshold
      [] v.fn = "sqrt" -> FALSE   \* sqrt(x) >= 10^8 needs x >= 10^16
      [] v.fn = "sqr"  -> v.w >= Pow10(PRECISION \div 2)  \* |x| >= 10^4
      \* cosh(x) and sinh(|x|) reach 10^8 at |x| = 19.11382793, and of an
      \* angle in degrees at 1095.14167042
      [] v.fn = "cosh" -> MagAtLeast(v, 19, 11382793)
      [] v.fn = "sinh" -> ~v.neg /\ MagAtLeast(v, 19, 11382793)
      [] v.fn = "cosh radians" -> MagAtLeast(v, 1095, 14167042)
      \* exp(x) reaches 10^8 at x = 18.42068075, x * pi at x = 31830988.61837907
      [] v.fn = "exp" -> ~v.neg /\ MagAtLeast(v, 18, 42068075)
      [] v.fn = "mulpi" -> ~v.neg /\ MagAtLeast(v, 31830988, 61837907)
      [] v.fn = "sinh radians" -> ~v.neg /\ MagAtLeast(v, 1095, 14167042)
      [] OTHER         -> FALSE   \* a logarithm, a sine, a cosine, an
                                  \* inverse and its degrees are below 10^8

\* bool( value ): a number is true when it is not zero
Truthy(v) == ~IsZero(v)

-----------------------------------------------------------------------------
(* Text *)

DigitChars == {"0", "1", "2", "3", "4", "5", "6", "7", "8", "9"}

DigitVal(ch) ==
    CASE ch = "0" -> 0 [] ch = "1" -> 1 [] ch = "2" -> 2 [] ch = "3" -> 3
      [] ch = "4" -> 4 [] ch = "5" -> 5 [] ch = "6" -> 6 [] ch = "7" -> 7
      [] ch = "8" -> 8 [] ch = "9" -> 9

\* not value, for None and str
Falsy(text) == text = None \/ text = <<>>

\* str.partition( '.' )
partition(text) ==
    IF \E i \in 1..Len(text) : text[i] = "."
    THEN LET p == CHOOSE i \in 1..Len(text) :
                      text[i] = "." /\ \A j \in 1..(i - 1) : text[j] # "."
         IN  [whole |-> SubSeq(text, 1, p - 1), sep |-> ".",
              dec |-> SubSeq(text, p + 1, Len(text))]
    ELSE [whole |-> text, sep |-> "", dec |-> <<>>]

RECURSIVE WholeValue(_)
WholeValue(digits) ==
    IF digits = <<>> THEN 0
    ELSE 10 * WholeValue(SubSeq(digits, 1, Len(digits) - 1))
         + DigitVal(digits[Len(digits)])

\* the fraction .d1 d2 ... in units of 10^-PRECISION
RECURSIVE FracValue(_, _)
FracValue(digits, i) ==
    IF i > Len(digits) \/ i > PRECISION THEN 0
    ELSE DigitVal(digits[i]) * Pow10(PRECISION - i) + FracValue(digits, i + 1)

\* NUMTYPE( text ) = float( text ), for a text of digits with at most one '.'
NUMTYPE(text) ==
    LET p == partition(text)
    IN  Dec(FALSE, WholeValue(p.whole), FracValue(p.dec, 1))

-----------------------------------------------------------------------------
(* The engine.  An operator takes the calculator state c, a record of the  *)
(* variables, and yields the state the method leaves.                      *)

Cur == [stack |-> stack, entry |-> entry, memory |-> memory,
        angles |-> angles, hyper |-> hyper, err |-> err,
        shifted |-> shifted, shiftLock |-> shiftLock,
        disp |-> disp, draws |-> draws]

\* The one element of a singleton.  A state is bound to a name by
\*     The({ e : c \in {state} })
\* which evaluates the state once, however often e reads c.
The(S) == CHOOSE x \in S : TRUE

\* Calculator.getRegister
getRegister(c, pos) ==
    IF pos < Len(c.stack) THEN c.stack[Len(c.stack) - pos] ELSE Zero

\* Calculator.getMemory
getMemory(c, pos) ==
    IF Len(c.memory) >= pos THEN c.memory[pos] ELSE Zero

\* Application.drawStack: every register and memory display is set
drawStack(c0) ==
    The({ [c EXCEPT
              !.disp = [regs |-> [x \in 1..STACK |-> getRegister(c, x - 1)],
                        mem  |-> [x \in 1..MEMORY |-> getMemory(c, x)],
                        text |-> None],
              !.draws = @ + 1] : c \in {c0} })

\* Application.entry: the X display shows the text typed so far
guiEntry(c, text) == [c EXCEPT !.disp.text = text]

\* Application.error
error(c, on) == [c EXCEPT !.err = on]

\* the mutant of finalizeEntry: the number is appended and the text is kept
finalizeEntryAgain(c0) ==
    The({ IF Falsy(c.entry) THEN c
          ELSE drawStack([c EXCEPT
                   !.stack = Append(c.stack, NUMTYPE(<<"0">> \o c.entry))])
          : c \in {c0} })

\* Calculator.finalizeEntry
finalizeEntry(c0) ==
    The({ IF Falsy(c.entry) THEN c
          ELSE LET s == IF c.stack = <<>> THEN <<Zero>> ELSE c.stack
               IN  drawStack([c EXCEPT
                       !.stack = [s EXCEPT
                                     ![Len(s)] = NUMTYPE(<<"0">> \o c.entry)],
                       !.entry = None]) : c \in {c0} })

\* the mutant of push: a pending entry is dropped, not committed
pushDropsEntry(c0, value, silent) ==
    The({ IF silent THEN [c EXCEPT !.stack = Append(c.stack, value)]
          ELSE drawStack([c EXCEPT !.stack = Append(c.stack, value)])
          : c \in {[c0 EXCEPT !.entry = None]} })

\* Calculator.push
push(c0, value, silent) ==
    The({ IF silent THEN [c EXCEPT !.stack = Append(c.stack, value)]
          ELSE drawStack([c EXCEPT !.stack = Append(c.stack, value)])
          : c \in {finalizeEntry(c0)} })

\* the mutant of pop: the last element is read but left on the stack
popKeeps(c0, silent) ==
    The({ [c |-> IF silent THEN c ELSE drawStack(c),
           value |-> IF c.stack # <<>> THEN c.stack[Len(c.stack)] ELSE Zero]
          : c \in {finalizeEntry(c0)} })

\* Calculator.pop: the state left and the value returned
pop(c0, silent) ==
    The({ LET rest == IF c.stack # <<>>
                      THEN [c EXCEPT
                               !.stack = SubSeq(c.stack, 1, Len(c.stack) - 1)]
                      ELSE c
          IN  [c |-> IF silent THEN rest ELSE drawStack(rest),
               value |-> IF c.stack # <<>> THEN c.stack[Len(c.stack)]
                         ELSE Zero]
          : c \in {finalizeEntry(c0)} })

\* the mutant of enterDigit: the first digit is typed over the X register
enterDigitOverX(c0, digit) ==
    The({ LET p == partition(c.entry)
              full == IF p.sep = "" THEN Len(p.whole) >= PRECISION
                      ELSE Len(p.dec) >= PRECISION
              text == IF c.entry = <<"0">> THEN <<digit>>
                      ELSE Append(c.entry, digit)
          IN  IF full THEN c ELSE guiEntry([c EXCEPT !.entry = text], text)
          : c \in {IF c0.entry = None
                   THEN [(IF c0.stack = <<>> THEN push(c0, Zero, FALSE)
                          ELSE c0) EXCEPT !.entry = <<>>]
                   ELSE c0} })

\* the mutant of enterDigit: no limit on the number of digits
enterDigitNoLimit(c0, digit) ==
    The({ LET text == IF c.entry = <<"0">> THEN <<digit>>
                      ELSE Append(c.entry, digit)
          IN  guiEntry([c EXCEPT !.entry = text], text)
          : c \in {IF c0.entry = None
                   THEN [push(c0, Zero, FALSE) EXCEPT !.entry = <<>>]
                   ELSE c0} })

\* Calculator.enterDigit
enterDigit(c0, digit) ==
    The({ LET p == partition(c.entry)
              full == IF p.sep = "" THEN Len(p.whole) >= PRECISION
                      ELSE Len(p.dec) >= PRECISION
              text == IF c.entry = <<"0">> THEN <<digit>>
                      ELSE Append(c.entry, digit)
          IN  IF full THEN c ELSE guiEntry([c EXCEPT !.entry = text], text)
          : c \in {IF c0.entry = None
                   THEN [push(c0, Zero, FALSE) EXCEPT !.entry = <<>>]
                   ELSE c0} })

\* the mutant of decimal: the entry begins with no placeholder pushed
decimalOverX(c0) ==
    The({ IF Falsy(c.entry)
          THEN guiEntry([c EXCEPT !.entry = <<"0", ".">>], <<"0", ".">>)
          ELSE IF \E i \in 1..Len(c.entry) : c.entry[i] = "."
               THEN c
               ELSE guiEntry([c EXCEPT !.entry = Append(c.entry, ".")],
                             Append(c.entry, ".")) : c \in {c0} })

\* Calculator.decimal
decimal(c0) ==
    The({ IF Falsy(c.entry)
          THEN guiEntry([push(c, Zero, FALSE) EXCEPT !.entry = <<"0", ".">>],
                        <<"0", ".">>)
          ELSE IF \E i \in 1..Len(c.entry) : c.entry[i] = "."
               THEN c
               ELSE guiEntry([c EXCEPT !.entry = Append(c.entry, ".")],
                             Append(c.entry, ".")) : c \in {c0} })

\* the mutant of backspace: the placeholder register is left on the stack
backspaceKeepsX(c0) ==
    The({ IF Falsy(c.entry) THEN c
          ELSE LET text == SubSeq(c.entry, 1, Len(c.entry) - 1)
               IN  IF text = <<>> \/ text = <<"0">>
                   THEN drawStack([c EXCEPT !.entry = None])
                   ELSE guiEntry([c EXCEPT !.entry = text], text)
          : c \in {c0} })

\* Calculator.backspace
backspace(c0) ==
    The({ IF Falsy(c.entry) THEN c
          ELSE LET text == SubSeq(c.entry, 1, Len(c.entry) - 1)
               IN  IF text = <<>> \/ text = <<"0">>
                   THEN pop([c EXCEPT !.entry = None], FALSE).c
                   ELSE guiEntry([c EXCEPT !.entry = text], text)
          : c \in {c0} })

\* the mutant of enter: X is duplicated after a pending entry is committed
enterAlwaysDuplicates(c0) ==
    The({ IF c.stack # <<>> THEN push(c, c.stack[Len(c.stack)], FALSE)
          ELSE push(c, Zero, FALSE) : c \in {finalizeEntry(c0)} })

\* Calculator.enter
enter(c0) ==
    The({ IF ~Falsy(c.entry) THEN finalizeEntry(c)
          ELSE IF c.stack # <<>> THEN push(c, c.stack[Len(c.stack)], FALSE)
               ELSE push(c, Zero, FALSE) : c \in {c0} })

\* the mutant of saveMemory: a pending entry is not committed first
saveMemoryStale(c0, pos) ==
    The({ drawStack([c EXCEPT
              !.memory = [(IF Len(@) < pos
                           THEN @ \o [i \in 1..(pos - Len(@)) |-> Zero]
                           ELSE @) EXCEPT ![pos] = getRegister(c, 0)]])
          : c \in {c0} })

\* Calculator.saveMemory
saveMemory(c0, pos) ==
    The({ drawStack([c EXCEPT
              !.memory = [(IF Len(@) < pos
                           THEN @ \o [i \in 1..(pos - Len(@)) |-> Zero]
                           ELSE @) EXCEPT ![pos] = getRegister(c, 0)]])
          : c \in {finalizeEntry(c0)} })

\* the mutant of loadMemory: the push is silent
loadMemorySilent(c, pos) == push(c, getMemory(c, pos), TRUE)

\* Calculator.loadMemory
loadMemory(c, pos) == push(c, getMemory(c, pos), FALSE)

\* the mutant of exchange: X and Y are pushed back in their old order
exchangeKeeps(c0) ==
    The({ The({ push(push(py.c, py.value, TRUE), px.value, FALSE)
                : py \in {pop(px.c, TRUE)} })
          : px \in {pop(finalizeEntry(c0), TRUE)} })

\* the mutant of exchange: the first push notifies too
exchangeLoud(c0) ==
    The({ The({ push(push(py.c, px.value, FALSE), py.value, FALSE)
                : py \in {pop(px.c, TRUE)} })
          : px \in {pop(finalizeEntry(c0), TRUE)} })

\* Calculator.exchange
exchange(c0) ==
    The({ The({ push(push(py.c, px.value, TRUE), py.value, FALSE)
                : py \in {pop(px.c, TRUE)} })
          : px \in {pop(finalizeEntry(c0), TRUE)} })

\* the mutant of clearStack: the pending entry is kept
clearStackKeepsEntry(c) == drawStack([c EXCEPT !.stack = <<>>])

\* the mutant of clearStack: the memory bank is cleared too
clearStackClearsMemory(c) ==
    drawStack([c EXCEPT !.stack = <<>>, !.entry = None, !.memory = <<>>])

\* Calculator.clearStack
clearStack(c) == drawStack([c EXCEPT !.stack = <<>>, !.entry = None])

\* the mutant of doShift: the lock is left as it was
doShiftKeepsLock(c, on) == [c EXCEPT !.shifted = on]

\* Application.doShift
doShift(c, on) ==
    [c EXCEPT !.shifted = on, !.shiftLock = IF on THEN @ ELSE FALSE]

\* Application.shift
shift(c0) == The({ IF c.shifted THEN c ELSE doShift(c, TRUE) : c \in {c0} })

\* Application.unshift
unshift(c) == doShift(c, FALSE)

\* Application.clickMemory
clickMemory(c, pos) ==
    unshift(IF c.shifted THEN saveMemory(c, pos) ELSE loadMemory(c, pos))

\* Application.toggleShift, reached through Calculator.shift
toggleShift(c0) ==
    The({ IF c.shifted THEN unshift(c)
          ELSE [shift(c) EXCEPT !.shiftLock = TRUE] : c \in {c0} })

-----------------------------------------------------------------------------
(* The functions the buttons hold.  A function is named by a string; a    *)
(* call yields the state it leaves (only the bound method pop changes the  *)
(* state), the exception it raised ("" for none) and the value returned.   *)

\* math.sqrt
sqrt(x) ==
    IF x.neg THEN [exc |-> "ValueError", value |-> Zero]
    ELSE IF x.f = 0 /\ ISqrt(x.w) * ISqrt(x.w) = x.w
         THEN [exc |-> "", value |-> Dec(FALSE, ISqrt(x.w), 0)]
         ELSE [exc |-> "", value |-> Term("sqrt", x)]

\* math.log: ln 1 = 0, and ln x is no decimal for any other decimal x > 0
log(x) ==
    IF x.neg \/ IsZero(x) THEN [exc |-> "ValueError", value |-> Zero]
    ELSE IF x = Dec(FALSE, 1, 0) THEN [exc |-> "", value |-> Zero]
         ELSE [exc |-> "", value |-> Term("ln", x)]

\* math.log10: an integer at a power of ten, else no decimal
log10(x) ==
    IF x.neg \/ IsZero(x) THEN [exc |-> "ValueError", value |-> Zero]
    ELSE IF x.f = 0 /\ \E k \in 0..9 : x.w = Pow10(k)
    THEN [exc |-> "", value |->
             Dec(FALSE, CHOOSE k \in 0..9 : x.w = Pow10(k), 0)]
    ELSE IF x.w = 0 /\ \E k \in 1..PRECISION : x.f = Pow10(PRECISION - k)
    THEN [exc |-> "", value |->
             Dec(TRUE, CHOOSE k \in 1..PRECISION : x.f = Pow10(PRECISION - k), 0)]
    ELSE [exc |-> "", value |-> Term("log10", x)]

\* math.pow( x, 2 ) of an integer x
pow2(x) ==
    IF x.w <= 46340
    THEN [exc |-> "", value |-> Dec(FALSE, x.w * x.w, 0)]
    ELSE [exc |-> "", value |-> Term("sqr", x)]

\* math.pi and math.e: the decimal shown names the constant
Pi == Term("pi", Dec(FALSE, 3, 14159265))

E == Term("e", Dec(FALSE, 2, 71828182))

\* math.exp: OverflowError from x = 709.78271290, 0.0 from x = -745.13321911
exp(x) ==
    IF ~x.neg /\ MagAtLeast(x, 709, 78271290)
    THEN [exc |-> "OverflowError", value |-> Zero]
    ELSE IF IsZero(x) THEN [exc |-> "", value |-> Dec(FALSE, 1, 0)]
    ELSE IF x.neg /\ MagAtLeast(x, 745, 13321911)
    THEN [exc |-> "", value |-> Zero]
    ELSE [exc |-> "", value |-> Term("exp", x)]

\* x * math.pi
mulpi(x) ==
    [exc |-> "", value |-> IF IsZero(x) THEN Zero ELSE Term("mulpi", x)]

\* len( inspect.signature( lam ).parameters )
Args(lam) ==
    CASE lam \in {"add", "sub"} -> 2
      [] lam \in {"neg", "sqrt", "pow2", "ln", "log10", "pop", "exp",
                  "mulpi"} -> 1
      [] OTHER -> 0

\* lam(): the digit closures and the bound methods without parameters
call0(c, lam) ==
    CASE lam \in DigitChars  -> enterDigit(c, lam)
      [] lam = "backspace"   -> backspace(c)
      [] lam = "clearStack"  -> clearStack(c)
      [] lam = "decimal"     -> decimal(c)
      [] lam = "enter"       -> enter(c)
      [] lam = "exchange"    -> exchange(c)
      [] lam = "shift"       -> toggleShift(c)
      [] lam = "pushpi"      -> push(c, Pi, FALSE)
      [] lam = "pushe"       -> push(c, E, FALSE)

\* lam( x )
call1(c, lam, x) ==
    CASE lam = "neg"  -> [c |-> c, exc |-> "", value |-> DecNeg(x)]
      [] lam = "sqrt" -> [c |-> c, exc |-> sqrt(x).exc, value |-> sqrt(x).value]
      [] lam = "pow2" -> [c |-> c, exc |-> pow2(x).exc, value |-> pow2(x).value]
      [] lam = "ln"   -> [c |-> c, exc |-> log(x).exc, value |-> log(x).value]
      [] lam = "log10" ->
             [c |-> c, exc |-> log10(x).exc, value |-> log10(x).value]
      [] lam = "exp"  -> [c |-> c, exc |-> exp(x).exc, value |-> exp(x).value]
      [] lam = "mulpi" ->
             [c |-> c, exc |-> mulpi(x).exc, value |-> mulpi(x).value]
      [] lam = "pop"  -> LET p == pop(c, Truthy(x))
                         IN  [c |-> p.c, exc |-> "", value |-> p.value]

\* x + y: the other operand when one is 0, else the sum of two decimals
Sum(x, y) == IF IsZero(x) THEN y ELSE IF IsZero(y) THEN x ELSE DecAdd(x, y)

\* the mutant of call2: '-' computes x - y
call2Swapped(c, lam, x, y) ==
    CASE lam = "add" -> [c |-> c, exc |-> "", value |-> Sum(x, y)]
      [] lam = "sub" -> [c |-> c, exc |-> "", value |-> DecSub(x, y)]

\* lam( x, y )
call2(c, lam, x, y) ==
    CASE lam = "add" -> [c |-> c, exc |-> "", value |-> Sum(x, y)]
      [] lam = "sub" -> [c |-> c, exc |-> "", value |-> DecSub(y, x)]

\* the outcome of a call: the result is pushed, or the operands are put back
Failed(r) == r.exc # "" \/ AtLeastThreshold(r.value)

\* OperationButton.do
do(c0, lam) ==
    IF Args(lam) = 0 THEN call0(c0, lam)
    ELSE IF Args(lam) = 1
    THEN The({ The({ IF ~Failed(r) THEN push(r.c, r.value, FALSE)
                     ELSE error(push(r.c, px.value, FALSE), TRUE)
                     : r \in {call1(px.c, lam, px.value)} })
               : px \in {pop(finalizeEntry(c0), TRUE)} })
    ELSE The({ The({ The({ IF ~Failed(r) THEN push(r.c, r.value, FALSE)
                           ELSE error(push(push(r.c, py.value, TRUE),
                                           px.value, FALSE), TRUE)
                           : r \in {call2(py.c, lam, px.value, py.value)} })
                     : py \in {pop(px.c, TRUE)} })
               : px \in {pop(finalizeEntry(c0), TRUE)} })

-----------------------------------------------------------------------------
(* TrigButton.  The functions are those of the math module, applied to a   *)
(* decimal x, or to the angle radians(x) of a decimal x.                   *)

\* math.radians
radians(x) == IF IsZero(x) THEN Zero ELSE App("radians", x)

\* math.degrees: exact at the angles asin(1), acos(0), acos(-1) and atan(1)
degrees(v) ==
    CASE IsZero(v) -> Zero
      [] v.fn \in {"asin", "acos", "atan"} /\ v.w = 1 /\ v.f = 0 ->
             Dec(v.neg /\ v.fn # "acos",
                 IF v.fn = "atan" THEN 45
                 ELSE IF v.fn = "acos" /\ v.neg THEN 180 ELSE 90, 0)
      [] v.fn = "acos" /\ v.w = 0 /\ v.f = 0 -> Dec(FALSE, 90, 0)
      [] OTHER -> App("degrees", v)

\* sinh and cosh raise OverflowError from |a| = 710.47586008, and of an
\* angle in degrees from 40707.26822817
Overflows(a) ==
    IF a.fn = "radians" THEN MagAtLeast(a, 40707, 26822817)
    ELSE MagAtLeast(a, 710, 47586008)

\* fn( a ) of the math module: the exception raised and the value returned
trigCall(fn, a) ==
    CASE fn \in {"sin", "sinh", "asin", "asinh"} /\ IsZero(a) ->
             [exc |-> "", value |-> Zero]
      [] fn \in {"cos", "cosh"} /\ IsZero(a) ->
             [exc |-> "", value |-> Dec(FALSE, 1, 0)]
      [] fn \in {"acos", "acosh"} /\ a = Dec(FALSE, 1, 0) ->
             [exc |-> "", value |-> Zero]
      [] fn \in {"sinh", "cosh"} /\ Overflows(a) ->
             [exc |-> "OverflowError", value |-> Zero]
      [] fn \in {"asin", "acos"} /\ MagAtLeast(a, 1, 1) ->
             [exc |-> "ValueError", value |-> Zero]
      [] fn = "acosh" /\ (a.neg \/ a.w = 0) ->
             [exc |-> "ValueError", value |-> Zero]
      [] OTHER -> [exc |-> "", value |-> App(fn, a)]

\* the four functions a TrigButton is built with
tfunc(b) == b

itfunc(b) == "a" \o b

hfunc(b) == b \o "h"

ihfunc(b) == "a" \o b \o "h"

\* the mutant of trigAction: on failure the converted angle is pushed back
trigActionRestoresAngle(c0, b) ==
    The({ The({ The({ IF r.exc = "" THEN push(p.c, r.value, FALSE)
                      ELSE error(push(p.c, a, FALSE), TRUE)
                      : r \in {trigCall(IF p.c.hyper THEN hfunc(b)
                                        ELSE tfunc(b), a)} })
                : a \in {IF p.c.angles = DEG THEN radians(p.value)
                         ELSE p.value} })
          : p \in {pop(c0, FALSE)} })

\* the mutant of trigAction: a result >= 10 ** PRECISION is rejected
trigActionChecked(c0, b) ==
    The({ The({ The({ IF r.exc = "" /\ ~AtLeastThreshold(r.value)
                      THEN push(p.c, r.value, FALSE)
                      ELSE error(push(p.c, p.value, FALSE), TRUE)
                      : r \in {trigCall(IF p.c.hyper THEN hfunc(b)
                                        ELSE tfunc(b), a)} })
                : a \in {IF p.c.angles = DEG THEN radians(p.value)
                         ELSE p.value} })
          : p \in {pop(c0, FALSE)} })

\* TrigButton.action
trigAction(c0, b) ==
    The({ The({ The({ IF r.exc = "" THEN push(p.c, r.value, FALSE)
                      ELSE error(push(p.c, p.value, FALSE), TRUE)
                      : r \in {trigCall(IF p.c.hyper THEN hfunc(b)
                                        ELSE tfunc(b), a)} })
                : a \in {IF p.c.angles = DEG THEN radians(p.value)
                         ELSE p.value} })
          : p \in {pop(c0, FALSE)} })

\* the mutant of trigAlternate: no conversion to degrees in hyperbolic mode
trigAlternateHyperUnconverted(c0, b) ==
    The({ The({ IF r.exc = ""
                THEN push(p.c, IF p.c.angles = DEG /\ ~p.c.hyper
                               THEN degrees(r.value) ELSE r.value, FALSE)
                ELSE error(push(p.c, p.value, FALSE), TRUE)
                : r \in {trigCall(IF p.c.hyper THEN ihfunc(b)
                                  ELSE itfunc(b), p.value)} })
          : p \in {pop(c0, FALSE)} })

\* TrigButton.alternate
trigAlternate(c0, b) ==
    The({ The({ IF r.exc = ""
                THEN push(p.c, IF p.c.angles = DEG THEN degrees(r.value)
                               ELSE r.value, FALSE)
                ELSE error(push(p.c, p.value, FALSE), TRUE)
                : r \in {trigCall(IF p.c.hyper THEN ihfunc(b)
                                  ELSE itfunc(b), p.value)} })
          : p \in {pop(c0, FALSE)} })

\* the trig buttons modelled
TrigButtons == {"sin", "cos"}

-----------------------------------------------------------------------------
(* TrigModeButton *)

\* the mutant of modeAction: the unit after RAD is DEG, then GRAD
modeActionCycles(c) ==
    [c EXCEPT !.angles = IF @ = RAD THEN DEG ELSE IF @ = DEG THEN GRAD
                         ELSE RAD]

\* TrigModeButton.action
modeAction(c) == [c EXCEPT !.angles = IF @ = DEG THEN RAD ELSE DEG]

\* the mutant of modeAlternate: a pending entry is committed first
modeAlternateCommits(c) == [finalizeEntry(c) EXCEPT !.hyper = ~@]

\* TrigModeButton.alternate
modeAlternate(c) == [c EXCEPT !.hyper = ~@]

-----------------------------------------------------------------------------
(* The buttons of Calculator.makeButtons: the primary function, the        *)
(* alternate name ("" for None) and the alternate function ("" for None).  *)
(* The button "named" is an OperationButton built with an alternate name   *)
(* and the default altlam=None, as the button() helper of a calculator     *)
(* class allows: button( 'Ent', key, self.enter, 'Dup' ).                  *)

lamOf(b) ==
    CASE b \in DigitChars -> b
      [] b = "bs"    -> "backspace"
      [] b = "dec"   -> "decimal"
      [] b = "ent"   -> "enter"
      [] b = "add"   -> "add"
      [] b = "sub"   -> "sub"
      [] b = "sqrt"  -> "sqrt"
      [] b = "ln"    -> "ln"
      [] b = "exch"  -> "exchange"
      [] b = "shift" -> "shift"
      [] b = "named" -> "enter"
      [] b = "deg"   -> "angles"
      [] b = "exp"   -> "exp"
      [] b = "pi"    -> "pushpi"
      [] b \in TrigButtons -> tfunc(b)

altOf(b) ==
    CASE b = "bs"   -> "AC"
      [] b = "deg"  -> "Hyp"
      [] b = "exp"  -> "e"
      [] b = "pi"   -> "x*Pi"
      [] b \in TrigButtons -> "XXX"
      [] b = "named" -> "Dup"
      [] b = "sub"  -> "-x"
      [] b = "sqrt" -> "Sqr"
      [] b = "ln"   -> "log"
      [] b = "exch" -> "popX"
      [] OTHER      -> ""

altlamOf(b) ==
    CASE b = "bs"   -> "clearStack"
      [] b = "sub"  -> "neg"
      [] b = "sqrt" -> "pow2"
      [] b = "ln"   -> "log10"
      [] b = "exch" -> "pop"
      [] b = "deg"  -> "hyper"
      [] b = "exp"  -> "pushe"
      [] b = "pi"   -> "mulpi"
      [] b \in TrigButtons -> itfunc(b)
      [] OTHER      -> ""

\* button.action(), by the class of the button
action(c, b) ==
    IF b = "deg" THEN modeAction(c)
    ELSE IF b \in TrigButtons THEN trigAction(c, b)
    ELSE do(c, lamOf(b))

\* button.alternate(), by the class of the button
alternate(c, b) ==
    IF b = "deg" THEN modeAlternate(c)
    ELSE IF b \in TrigButtons THEN trigAlternate(c, b)
    ELSE IF altlamOf(b) # "" THEN do(c, altlamOf(b)) ELSE c

\* the function a press of b in state c calls, "" when it calls none
Dispatched(c, b) ==
    IF c.shifted /\ altOf(b) # "" THEN altlamOf(b) ELSE lamOf(b)

\* the mutant of press: the error indicator is left as it was
pressKeepsError(c0, b) ==
    The({ IF c1.shiftLock /\ c1.shifted = c0.shifted THEN unshift(c1) ELSE c1
          : c1 \in {IF c0.shifted /\ altOf(b) # "" THEN alternate(c0, b)
                    ELSE action(c0, b)} })

\* the mutant of press: a latched shift is not released
pressKeepsLatch(c0, b) ==
    IF c0.shifted /\ altOf(b) # "" THEN alternate(error(c0, FALSE), b)
    ELSE action(error(c0, FALSE), b)

\* the mutant of press: the primary action is called, shifted or not
pressAlwaysAction(c0, b) ==
    The({ IF c1.shiftLock /\ c1.shifted = c0.shifted THEN unshift(c1) ELSE c1
          : c1 \in {action(error(c0, FALSE), b)} })

\* Application.press
press(c0, b) ==
    The({ IF c1.shiftLock /\ c1.shifted = c0.shifted THEN unshift(c1) ELSE c1
          : c1 \in {IF c0.shifted /\ altOf(b) # ""
                    THEN alternate(error(c0, FALSE), b)
                    ELSE action(error(c0, FALSE), b)} })

-----------------------------------------------------------------------------
(* The state machine *)

Set(c) ==
    /\ stack' = c.stack
    /\ entry' = c.entry
    /\ memory' = c.memory
    /\ angles' = c.angles
    /\ hyper' = c.hyper
    /\ err' = c.err
    /\ shifted' = c.shifted
    /\ shiftLock' = c.shiftLock
    /\ disp' = c.disp
    /\ draws' = c.draws

\* the state in which a handler starts: no drawStack call made yet
Start == [Cur EXCEPT !.draws = 0]

\* X and Y as an Operation button will pop them
OperandX(c) == getRegister(finalizeEntry(c), 0)

OperandY(c) == getRegister(finalizeEntry(c), 1)

MaxWhole == 1000000000

Small(v) == IsDec(v) /\ v.w < MaxWhole

\* The presses explored: the arguments of an arithmetic function lie in the
\* domain on which the model computes it
Explored(c, b) ==
    LET lam == Dispatched(c, b)
    IN  /\ lam \in {"neg", "sqrt", "ln", "log10"} => Small(OperandX(c))
        /\ lam = "pow2" => Small(OperandX(c)) /\ OperandX(c).f = 0
        /\ lam \in {"add", "sub"} => Small(OperandX(c)) /\ Small(OperandY(c))

\* the handler before the one that runs now, and the modes it started from
Ago == [b |-> last.b, shifted |-> prev.shifted, angles |-> prev.angles,
        hyper |-> prev.hyper]

\* A handler that leaves state c has run: the history is written
Ran(c, ev, b, lam, ret) ==
    /\ Set(c)
    /\ last' = [ev |-> ev, b |-> b, lam |-> lam, ret |-> ret,
                after |-> last.ev, pos |-> 0, ago |-> Ago, exc |-> ""]
    /\ prev' = Cur
    /\ base' = IF entry = None /\ c.entry # None THEN stack ELSE base
    /\ presses' = presses + 1
    /\ UNCHANGED saved

\* A press of button b: the button widget's command, or its bound key
Press(b) ==
    /\ presses < MaxPresses
    /\ Explored(Cur, b)
    /\ \E c \in {press(Start, b)} :
           Ran(c, "press", b, Dispatched(Cur, b), Zero)

\* the digits pressed
Digits == {"0", "2", "5"}

PressDigit == \E d \in Digits : Press(d)

PressBackspace == Press("bs")

PressDecimal == Press("dec")

PressEnter == Press("ent")

PressAdd == Press("add")

PressSub == Press("sub")

PressSqrt == Press("sqrt")

PressLn == Press("ln")

PressExchange == Press("exch")

PressShift == Press("shift")

PressNamed == Press("named")

\* Calculator.pop called by a driver, which reads the value returned
PopCall ==
    /\ presses < MaxPresses
    /\ \E silent \in BOOLEAN : \E p \in {pop(Start, silent)} :
           Ran(p.c, "pop", "", "", p.value)

\* Calculator.finalizeEntry called by a driver
FinalizeCall ==
    /\ presses < MaxPresses
    /\ \E c \in {finalizeEntry(Start)} : Ran(c, "finalize", "", "", Zero)

-----------------------------------------------------------------------------
(* The states the exploration starts from: states the calculator reaches   *)
(* by presses, since a run of MaxPresses presses from the empty calculator *)
(* alone would reach none of the large numbers.                            *)

Num(n) == Dec(FALSE, n, 0)

Big == Num(55555555)

SeedValues == {Num(3), Dec(TRUE, 1, 0), Dec(FALSE, 5, 20000000),
               Big, DecNeg(Big)}

SeedStacks ==
    {<<>>, <<Zero>>, <<Num(7), Num(3), Dec(TRUE, 1, 0)>>, <<Num(7), Big, Big>>}
    \cup {<<v>> : v \in SeedValues}
    \cup {<<y, x>> : y \in SeedValues, x \in SeedValues}

SeedBases == {<<>>, <<Num(3)>>, <<Num(7), Num(3)>>}

SeedTexts == {<<"5">>, <<"5", ".">>, <<"0">>, <<"0", ".">>,
              <<"5", "5", "5", "5", "5", "5", "5">>,
              <<"5", ".", "5", "5", "5", "5", "5", "5", "5">>}

\* an idle calculator showing its stack, or one in which text was typed:
\* the placeholder 0 is in X and the X display shows the text
Seeds ==
    {[stack |-> s, entry |-> None] : s \in SeedStacks}
    \cup {[stack |-> Append(s, Zero), entry |-> t] :
              s \in SeedBases, t \in SeedTexts}

Fresh(seed) ==
    LET c == drawStack([stack |-> seed.stack, entry |-> seed.entry,
                        memory |-> <<>>, angles |-> RAD, hyper |-> FALSE,
                        err |-> FALSE, shifted |-> FALSE, shiftLock |-> FALSE,
                        disp |-> <<>>, draws |-> 0])
    IN  [IF seed.entry = None THEN c ELSE guiEntry(c, seed.entry)
            EXCEPT !.draws = 0]

Init ==
    \E seed \in Seeds : \E c \in {Fresh(seed)} :
        /\ stack = c.stack
        /\ entry = c.entry
        /\ memory = c.memory
        /\ angles = c.angles
        /\ hyper = c.hyper
        /\ err = c.err
        /\ shifted = c.shifted
        /\ shiftLock = c.shiftLock
        /\ disp = c.disp
        /\ draws = c.draws
        /\ last = [ev |-> "init", b |-> "", lam |-> "", ret |-> Zero,
                   after |-> "init", pos |-> 0,
                   ago |-> [b |-> "", shifted |-> FALSE, angles |-> RAD,
                            hyper |-> FALSE], exc |-> ""]
        /\ saved = [p \in Positions |-> Zero]
        /\ prev = c
        /\ base = IF seed.entry = None THEN <<>>
                  ELSE SubSeq(seed.stack, 1, Len(seed.stack) - 1)
        /\ presses = 0

Next ==
    \/ PressDigit
    \/ PressBackspace
    \/ PressDecimal
    \/ PressEnter
    \/ PressAdd
    \/ PressSub
    \/ PressSqrt
    \/ PressLn
    \/ PressExchange
    \/ PressShift
    \/ PressNamed
    \/ PopCall
    \/ FinalizeCall

Spec == Init /\ [][Next]_vars

-----------------------------------------------------------------------------
(* What the claims read of the last handler *)

\* the last handler was a press that called a one- or two-argument function
OperationPress == last.ev = "press" /\ Args(last.lam) \in {1, 2}

\* the stack that press started from, a pending entry committed
Committed == finalizeEntry(prev).stack

\* the operands that press popped
PoppedX == pop(finalizeEntry(prev), TRUE)

PoppedY == pop(PoppedX.c, TRUE)

\* what the function returned or raised on them
Outcome ==
    IF Args(last.lam) = 1
    THEN call1(PoppedX.c, last.lam, PoppedX.value)
    ELSE call2(PoppedY.c, last.lam, PoppedX.value, PoppedY.value)

\* the stack with the operands put back in their original order
Restored ==
    IF Args(last.lam) = 1
    THEN Append(PoppedX.c.stack, PoppedX.value)
    ELSE PoppedY.c.stack \o <<PoppedY.value, PoppedX.value>>

\* |v| >= 10 ** PRECISION
MagnitudeAtLeastThreshold(v) == AtLeastThreshold([v EXCEPT !.neg = FALSE])

-----------------------------------------------------------------------------
(* C1 *)

\* '-' pressed on an idle calculator whose stack is [y, x]
C1_Case ==
    /\ last.ev = "press" /\ last.lam = "sub"
    /\ prev.entry = None /\ Len(prev.stack) = 2

\* y - x
C1_Difference == DecSub(prev.stack[1], prev.stack[2])

\* C1 as claimed: after push y, push x and a press of '-' on an idle, empty
\* calculator, the stack is exactly [y - x], for all x and y.
C1_Original == C1_Case => stack = <<C1_Difference>>

\* C1 as amended: the stack is exactly [y - x] when y - x < 10^PRECISION;
\* when y - x >= 10^PRECISION the stack stays [y, x] and the error indicator
\* is active.  The function receives (top, second) and yields Y - X.
C1_SubtractsXFromY ==
    C1_Case =>
        IF AtLeastThreshold(C1_Difference)
        THEN stack = prev.stack /\ err
        ELSE stack = <<C1_Difference>> /\ ~err

\* 5.2, 3, '-' leaves [2.2]
C1_Witness ==
    /\ C1_Case
    /\ prev.stack = <<Dec(FALSE, 5, 20000000), Num(3)>>
    /\ stack = <<Dec(FALSE, 2, 20000000)>>

-----------------------------------------------------------------------------
(* C2 *)

\* C2 as claimed: when a press of a one- or two-argument Operation button
\* fails, the stack afterwards is identical, in depth and in every value, to
\* the stack before the operation (a pending entry committed), at any stack
\* depth, and the error indicator is active.
C2_FailureLeavesStackIdentical ==
    (OperationPress /\ Failed(Outcome)) => (stack = Committed /\ err)

-----------------------------------------------------------------------------
(* C3 *)

\* C3 as claimed: whenever the result computed by a one- or two-argument
\* Operation button has magnitude >= 10^PRECISION, positive or negative, the
\* result is not pushed, the operands are restored in their original order
\* and the error indicator is active.
C3_LargeMagnitudeRejected ==
    (OperationPress /\ Outcome.exc = ""
        /\ MagnitudeAtLeastThreshold(Outcome.value))
    => (stack = Restored /\ err)

-----------------------------------------------------------------------------
(* C4 *)

\* C4: once a press has completed, the error indicator is active if and only
\* if that press failed, whatever the indicator showed before it.
C4_IndicatorTracksLastPress ==
    last.ev = "press" => (err <=> (OperationPress /\ Failed(Outcome)))

\* a press that succeeds after a press that failed: the indicator is cleared
C4_Witness == last.ev = "press" /\ prev.err /\ ~err /\ last.after = "press"

-----------------------------------------------------------------------------
(* The entry buffer alone: every text that digit, decimal, backspace and   *)
(* Enter presses can type on one of two stacks, to the full PRECISION.     *)
(* The history of handlers is not kept here.                               *)

EntryBases == {<<>>, <<Num(3)>>}

\* a press of b; a new entry is started only on one of the EntryBases
Type(b) ==
    /\ entry = None => (stack \in EntryBases /\ b # "ent")
    /\ \E c \in {press(Start, b)} :
           /\ Set(c)
           /\ base' = IF entry = None /\ c.entry # None THEN stack ELSE base
    /\ UNCHANGED <<last, prev, saved, presses>>

TypeDigit == Type("0") \/ Type("5")

TypeDecimal == Type("dec")

TypeBackspace == Type("bs")

TypeEnter == Type("ent")

InitEntry ==
    \E s \in EntryBases : \E c \in {Fresh([stack |-> s, entry |-> None])} :
        /\ stack = c.stack
        /\ entry = c.entry
        /\ memory = c.memory
        /\ angles = c.angles
        /\ hyper = c.hyper
        /\ err = c.err
        /\ shifted = c.shifted
        /\ shiftLock = c.shiftLock
        /\ disp = c.disp
        /\ draws = c.draws
        /\ last = [ev |-> "init", b |-> "", lam |-> "", ret |-> Zero,
                   after |-> "init", pos |-> 0,
                   ago |-> [b |-> "", shifted |-> FALSE, angles |-> RAD,
                            hyper |-> FALSE], exc |-> ""]
        /\ saved = [p \in Positions |-> Zero]
        /\ prev = c
        /\ base = <<>>
        /\ presses = 0

NextEntry == TypeDigit \/ TypeDecimal \/ TypeBackspace \/ TypeEnter

SpecEntry == InitEntry /\ [][NextEntry]_vars

-----------------------------------------------------------------------------
(* C5 *)

\* the last handler committed a pending entry: finalize, or Enter
C5_Finalized ==
    /\ last.ev = "finalize" \/ (last.ev = "press" /\ last.lam = "enter")
    /\ prev.entry # None

\* C5: typing digits and decimal points from an Idle buffer on a stack S
\* puts a placeholder 0 on top of S and leaves S as it is; finalizing the text
\* t leaves S followed by the number t denotes ('5', '.', '2' gives 5.2).
C5_EntryExtendsStack ==
    /\ (last.ev = "press" /\ last.lam \in DigitChars \cup {"decimal"}
           /\ prev.entry = None) => base = prev.stack
    /\ entry # None => stack = Append(base, Zero)
    /\ C5_Finalized =>
           /\ entry = None
           /\ stack = Append(base, NUMTYPE(prev.entry))
           /\ prev.entry = <<"5", ".", "2">> =>
                  stack[Len(stack)] = Dec(FALSE, 5, 20000000)

\* '5', '.', '2' finalized on a stack that is not empty
C5_Witness ==
    /\ C5_Finalized
    /\ prev.entry = <<"5", ".", "2">>
    /\ base # <<>>
    /\ stack = Append(base, Dec(FALSE, 5, 20000000))

-----------------------------------------------------------------------------
(* C6 *)

C6_Dots == {i \in 1..Len(entry) : entry[i] = "."}

C6_WholeDigits ==
    IF C6_Dots = {} THEN Len(entry)
    ELSE (CHOOSE i \in C6_Dots : \A j \in C6_Dots : i <= j) - 1

C6_FractionDigits ==
    IF C6_Dots = {} THEN 0
    ELSE Len(entry) - (CHOOSE i \in C6_Dots : \A j \in C6_Dots : i <= j)

\* C6: whenever the buffer is Editing its text has at most PRECISION whole
\* digits, at most one decimal point, at most PRECISION fractional digits,
\* and no leading '0' directly followed by another digit.
C6_EntryWellFormed ==
    entry # None =>
        /\ \A i \in 1..Len(entry) : entry[i] \in DigitChars \cup {"."}
        /\ Cardinality(C6_Dots) <= 1
        /\ C6_WholeDigits <= PRECISION
        /\ C6_FractionDigits <= PRECISION
        /\ ~(Len(entry) >= 2 /\ entry[1] = "0" /\ entry[2] \in DigitChars)

\* a text with PRECISION digits on both sides of the decimal point
C6_Witness ==
    /\ entry # None
    /\ C6_WholeDigits = PRECISION
    /\ C6_FractionDigits = PRECISION

-----------------------------------------------------------------------------
(* C7 *)

C7_Case == last.ev = "press" /\ last.lam = "backspace"

C7_Remaining == SubSeq(prev.entry, 1, Len(prev.entry) - 1)

\* C7: backspace changes nothing when Idle; when Editing it drops the last
\* character, and when the remaining text is empty or "0" the buffer becomes
\* Idle and the placeholder register is popped, so that the stack is again
\* the stack S on which the entry was started.
C7_Backspace ==
    C7_Case =>
        IF prev.entry = None
        THEN entry = None /\ stack = prev.stack
        ELSE IF C7_Remaining = <<>> \/ C7_Remaining = <<"0">>
             THEN /\ entry = None
                  /\ stack = SubSeq(prev.stack, 1, Len(prev.stack) - 1)
                  /\ stack = base
             ELSE entry = C7_Remaining /\ stack = prev.stack

\* the second of two backspaces empties the buffer: the stack is S again
C7_Witness ==
    /\ C7_Case /\ last.after = "press"
    /\ prev.entry # None /\ entry = None
    /\ base # <<>> /\ stack = base

-----------------------------------------------------------------------------
(* C8 *)

\* C8: a finalize that follows a finalize, and a finalize on an Idle buffer,
\* leave the stack, the entry buffer, the memory and the mode flags as they
\* were.
C8_FinalizeIdempotent ==
    (last.ev = "finalize" /\ (last.after = "finalize" \/ prev.entry = None))
    => /\ stack = prev.stack
       /\ entry = prev.entry
       /\ memory = prev.memory
       /\ angles = prev.angles
       /\ hyper = prev.hyper

\* finalize called twice on the typed text "5"
C8_Witness ==
    /\ last.ev = "finalize" /\ last.after = "finalize"
    /\ stack # <<>> /\ stack[Len(stack)] = Num(5)

-----------------------------------------------------------------------------
(* C9 *)

C9_Case == last.ev = "press" /\ last.lam = "enter"

\* C9: Enter on an Idle buffer duplicates X ([3] becomes [3, 3]), on an
\* Idle buffer and an empty stack leaves [0], and on an Editing buffer only
\* commits the typed value: the depth does not change.
C9_EnterOrDuplicate ==
    C9_Case =>
        IF prev.entry = None
        THEN /\ entry = None
             /\ stack = IF prev.stack = <<>> THEN <<Zero>>
                        ELSE Append(prev.stack, prev.stack[Len(prev.stack)])
        ELSE /\ entry = None
             /\ Len(stack) = Len(prev.stack)
             /\ stack = Append(base, NUMTYPE(prev.entry))

\* [3] becomes [3, 3]
C9_Witness ==
    /\ C9_Case /\ prev.entry = None
    /\ prev.stack = <<Num(3)>> /\ stack = <<Num(3), Num(3)>>

-----------------------------------------------------------------------------
(* C10 *)

\* C10: pop on an empty stack returns 0 and leaves it empty; on a stack that
\* is not empty it removes and returns the last element and leaves the rest;
\* a pending entry is committed first, so that the typed value is returned.
C10_Pop ==
    last.ev = "pop" =>
        /\ entry = None
        /\ err = prev.err
        /\ IF prev.entry # None
           THEN /\ last.ret = NUMTYPE(prev.entry)
                /\ stack = SubSeq(prev.stack, 1, Len(prev.stack) - 1)
           ELSE IF prev.stack = <<>>
           THEN last.ret = Zero /\ stack = <<>>
           ELSE /\ last.ret = prev.stack[Len(prev.stack)]
                /\ stack = SubSeq(prev.stack, 1, Len(prev.stack) - 1)

\* pop while Editing returns the typed 5.5555555
C10_Witness ==
    /\ last.ev = "pop" /\ prev.entry # None
    /\ last.ret = Dec(FALSE, 5, 55555550)
    /\ stack = base

-----------------------------------------------------------------------------
(* The keys of the Application besides the buttons: the memory keys and    *)
(* displays, the Shift keys and Escape, with the digit 5 and the backspace *)
(* button to type and to clear.                                            *)

\* the memory keys pressed, and the memory displays clicked
KeyPositions == {2, 4}

ClickPositions == {1, 2}

\* X as saveMemory will read it
CurrentX == IF entry = None THEN getRegister(Cur, 0) ELSE NUMTYPE(entry)

\* A handler of position pos that leaves state c has run; it saved X when
\* saving is TRUE
RanAt(c, ev, pos, saving) ==
    /\ Set(c)
    /\ last' = [ev |-> ev, b |-> "", lam |-> "", ret |-> Zero,
                after |-> last.ev, pos |-> pos, ago |-> Ago, exc |-> ""]
    /\ prev' = Cur
    /\ base' = base
    /\ presses' = presses + 1
    /\ saved' = IF saving THEN [saved EXCEPT ![pos] = CurrentX] ELSE saved

\* <Shift-F2>, <Shift-F4>
SaveKey ==
    /\ presses < MaxKeys
    /\ \E pos \in KeyPositions : \E c \in {saveMemory(Start, pos)} :
           RanAt(c, "save", pos, TRUE)

\* <F2>, <F4>
LoadKey ==
    /\ presses < MaxKeys
    /\ \E pos \in KeyPositions : \E c \in {loadMemory(Start, pos)} :
           RanAt(c, "load", pos, FALSE)

\* a click on a memory display
ClickMemory ==
    /\ presses < MaxKeys
    /\ \E pos \in ClickPositions : \E c \in {clickMemory(Start, pos)} :
           RanAt(c, IF shifted THEN "save" ELSE "load", pos, shifted)

\* <KeyPress-Shift_L>
ShiftKey ==
    /\ presses < MaxKeys
    /\ \E c \in {shift(Start)} : Ran(c, "shift", "", "", Zero)

\* <KeyRelease-Shift_L>
ShiftRelease ==
    /\ presses < MaxKeys
    /\ \E c \in {unshift(Start)} : Ran(c, "unshift", "", "", Zero)

\* <Escape>
Escape ==
    /\ presses < MaxKeys
    /\ \E c \in {clearStack(Start)} : Ran(c, "escape", "", "clearStack", Zero)

\* a button pressed among the keys
KeyPress(b) ==
    /\ presses < MaxKeys
    /\ \E c \in {press(Start, b)} :
           Ran(c, "press", b, Dispatched(Cur, b), Zero)

KeyDigit == KeyPress("5")

KeyBackspace == KeyPress("bs")

KeyMode == KeyPress("deg")

KeyShift == KeyPress("shift")

\* Pi / x*Pi and Exp / e, on a decimal X
KeyPi == (Dispatched(Cur, "pi") = "mulpi" => Small(OperandX(Cur)))
         /\ KeyPress("pi")

KeyExp == (Dispatched(Cur, "exp") = "exp" => Small(OperandX(Cur)))
          /\ KeyPress("exp")

\* '+' on decimal operands, and x<>y / popX
KeyAdd == Explored(Cur, "add") /\ KeyPress("add")

KeyExchange == KeyPress("exch")

KeyEnter == KeyPress("ent")

\* Sin / Asin / Sinh / Asinh, on a decimal X
KeySin == Small(OperandX(Cur)) /\ KeyPress("sin")

KeySeeds ==
    {[stack |-> <<>>, entry |-> None],
     [stack |-> <<Num(7), Num(3)>>, entry |-> None],
     [stack |-> <<Num(3), Zero>>, entry |-> <<"5", ".">>]}

InitKeys ==
    \E seed \in KeySeeds : \E c \in {Fresh(seed)} :
        /\ stack = c.stack
        /\ entry = c.entry
        /\ memory = c.memory
        /\ angles = c.angles
        /\ hyper = c.hyper
        /\ err = c.err
        /\ shifted = c.shifted
        /\ shiftLock = c.shiftLock
        /\ disp = c.disp
        /\ draws = c.draws
        /\ last = [ev |-> "init", b |-> "", lam |-> "", ret |-> Zero,
                   after |-> "init", pos |-> 0,
                   ago |-> [b |-> "", shifted |-> FALSE, angles |-> RAD,
                            hyper |-> FALSE], exc |-> ""]
        /\ saved = [p \in Positions |-> Zero]
        /\ prev = c
        /\ base = IF seed.entry = None THEN <<>>
                  ELSE SubSeq(seed.stack, 1, Len(seed.stack) - 1)
        /\ presses = 0

NextKeys ==
    \/ SaveKey
    \/ LoadKey
    \/ ClickMemory
    \/ ShiftKey
    \/ ShiftRelease
    \/ Escape
    \/ KeyDigit
    \/ KeyBackspace
    \/ KeyMode
    \/ KeyShift
    \/ KeyPi
    \/ KeyExp
    \/ KeyAdd
    \/ KeyExchange
    \/ KeyEnter
    \/ KeySin

SpecKeys == InitKeys /\ [][NextKeys]_vars

-----------------------------------------------------------------------------
(* C11 *)

\* C11: after any sequence of saves and loads, position p reads as the X
\* register that was current at the most recent save to p (a pending entry
\* committed first), or as 0 if p was never saved; a save to p makes the
\* bank at least p entries long and changes no other position; a load pushes
\* the value read.
C11_MemoryBank ==
    /\ \A p \in Positions : getMemory(Cur, p) = saved[p]
    /\ last.ev = "save" =>
           /\ Len(memory) >= last.pos
           /\ Len(memory) >= Len(prev.memory)
           /\ \A p \in Positions \ {last.pos} :
                  getMemory(Cur, p) = getMemory(prev, p)
    /\ last.ev = "load" =>
           /\ memory = prev.memory
           /\ stack # <<>> /\ stack[Len(stack)] = saved[last.pos]

\* a second save to position 2, made while Editing, replaces the first
C11_Witness ==
    /\ last.ev = "save" /\ last.pos = 2
    /\ prev.entry # None
    /\ getMemory(prev, 2) = Num(3)
    /\ memory = <<Zero, NUMTYPE(prev.entry)>>
    /\ memory # prev.memory

-----------------------------------------------------------------------------
(* C12 *)

\* the last press was made with shift active on a button with an alternate
C12_Alternate == prev.shifted /\ altOf(last.b) # ""

\* the state the function of that press leaves, the indicator cleared first
C12_Called ==
    IF C12_Alternate
    THEN IF altlamOf(last.b) # ""
         THEN do(error([prev EXCEPT !.draws = 0], FALSE), altlamOf(last.b))
         ELSE error([prev EXCEPT !.draws = 0], FALSE)
    ELSE do(error([prev EXCEPT !.draws = 0], FALSE), lamOf(last.b))

\* C12: a press calls the alternate of the button exactly when shift is
\* active and the button has an alternate name, and the primary action
\* otherwise (a shifted digit is typed, a shifted '-' changes the sign unless
\* that overflows, an unshifted backspace does not clear); a button with an alternate name and
\* no alternate function, pressed shifted, changes nothing of the calculator.
C12_PressDispatch ==
    last.ev = "press" =>
        /\ stack = C12_Called.stack
        /\ entry = C12_Called.entry
        /\ err = C12_Called.err
        /\ (last.b \in DigitChars /\ prev.entry = None) => entry = <<last.b>>
        /\ (last.b = "bs" /\ prev.shifted) => stack = <<>> /\ entry = None
        /\ (last.b = "bs" /\ ~prev.shifted /\ prev.entry = None)
               => stack = prev.stack
        /\ (last.b = "sub" /\ prev.shifted /\ prev.entry = None
               /\ prev.stack # <<>>)
               => stack = [prev.stack EXCEPT ![Len(prev.stack)] =
                              IF AtLeastThreshold(DecNeg(@)) THEN @
                              ELSE DecNeg(@)]
        /\ (last.b = "named" /\ prev.shifted)
               => /\ stack = prev.stack /\ entry = prev.entry
                  /\ memory = prev.memory /\ draws = 0
        /\ (last.b = "named" /\ ~prev.shifted /\ prev.entry = None
               /\ prev.stack # <<>>)
               => Len(stack) = Len(prev.stack) + 1

\* a shifted '-' changes the sign of X
C12_Witness ==
    /\ last.ev = "press" /\ last.b = "sub" /\ prev.shifted
    /\ prev.stack = <<Num(3)>> /\ stack = <<Dec(TRUE, 3, 0)>>

-----------------------------------------------------------------------------
(* C13 *)

C13_Case == last.ev = "press" /\ last.lam = "exchange"

\* the stack before the exchange, a pending entry committed
C13_Before ==
    IF prev.entry = None THEN prev.stack
    ELSE [prev.stack EXCEPT ![Len(prev.stack)] = NUMTYPE(prev.entry)]

\* register i of stack s; a missing register reads as 0
C13_Register(s, i) == IF i < Len(s) THEN s[Len(s) - i] ELSE Zero

\* C13: after exchange register 0 is the previous register 1, register 1 is
\* the previous register 0 and every register i >= 2 is unchanged, the
\* previous values read after a pending entry is committed.
C13_ExchangeSwaps ==
    C13_Case =>
        /\ entry = None
        /\ getRegister(Cur, 0) = C13_Register(C13_Before, 1)
        /\ getRegister(Cur, 1) = C13_Register(C13_Before, 0)
        /\ \A i \in 2..(STACK + 1) :
               getRegister(Cur, i) = C13_Register(C13_Before, i)

\* 7, 3 and the typed 5: the stack becomes 7, 5, 3
C13_Witness ==
    /\ C13_Case /\ prev.entry = <<"5">>
    /\ prev.stack = <<Num(7), Num(3), Zero>>
    /\ stack = <<Num(7), Num(5), Num(3)>>

-----------------------------------------------------------------------------
(* C14 *)

\* AC or Escape
C14_Case == last.lam = "clearStack"

\* C14: clear empties the stack and discards a pending entry without
\* committing it, emits one stack notification, and leaves the memory bank,
\* the angle unit and the hyperbolic flag unchanged.
C14_Clear ==
    C14_Case =>
        /\ stack = <<>> /\ entry = None
        /\ draws = 1
        /\ disp.text = None
        /\ \A x \in 1..STACK : disp.regs[x] = Zero
        /\ memory = prev.memory
        /\ angles = prev.angles /\ hyper = prev.hyper

\* clear while a text is pending and the memory bank holds a value
C14_Witness ==
    /\ C14_Case
    /\ prev.entry # None /\ Len(prev.stack) >= 2
    /\ memory # <<>> /\ memory[Len(memory)] # Zero
    /\ stack = <<>>

-----------------------------------------------------------------------------
(* C18 *)

C18_Case == last.ev = "press" /\ last.b = "deg"

\* C18: the angle unit is RAD or DEG and never GRAD; the primary action of
\* the mode button toggles it between DEG and RAD, so that two consecutive
\* presses restore the unit; the alternate toggles the hyperbolic flag and
\* leaves the unit.
C18_ModeToggle ==
    /\ angles \in {RAD, DEG} /\ angles # GRAD
    /\ (C18_Case /\ ~prev.shifted) =>
           /\ angles = IF prev.angles = DEG THEN RAD ELSE DEG
           /\ hyper = prev.hyper
    /\ (C18_Case /\ ~prev.shifted /\ last.after = "press"
           /\ last.ago.b = "deg" /\ ~last.ago.shifted)
           => angles = last.ago.angles
    /\ (C18_Case /\ prev.shifted) =>
           /\ hyper = ~prev.hyper
           /\ angles = prev.angles

\* the second of two presses: DEG was set, and RAD is restored
C18_Witness ==
    /\ C18_Case /\ ~prev.shifted /\ last.after = "press"
    /\ last.ago.b = "deg" /\ ~last.ago.shifted
    /\ prev.angles = DEG /\ angles = RAD

-----------------------------------------------------------------------------
(* C19 *)

\* C19: a press of the mode button, primary or alternate, leaves the stack,
\* the text of the entry buffer (a pending entry is not committed) and the
\* memory bank unchanged.
C19_ModeKeepsStack ==
    C18_Case =>
        /\ stack = prev.stack
        /\ entry = prev.entry
        /\ memory = prev.memory
        /\ disp = prev.disp /\ draws = 0

\* the alternate pressed while a text is pending and the bank holds a value
C19_Witness ==
    /\ C18_Case /\ prev.shifted /\ hyper
    /\ entry # None /\ memory # <<>> /\ stack # <<>>

-----------------------------------------------------------------------------
(* The trig buttons, in every angle unit and hyperbolic setting that the   *)
(* mode button reaches, with the buttons that bring a trig result under an *)
(* Operation: the digit 0, '+' and exchange / popX.                        *)

\* The presses explored: a trig function is computed of a decimal, a sum of
\* two decimals or of a number and 0
TrigExplored(c, b) ==
    /\ b \in TrigButtons => Small(OperandX(c))
    /\ Dispatched(c, b) = "add" =>
           \/ Small(OperandX(c)) /\ Small(OperandY(c))
           \/ IsZero(OperandX(c)) \/ IsZero(OperandY(c))

TrigPress(b) ==
    /\ presses < MaxTrig
    /\ TrigExplored(Cur, b)
    /\ \E c \in {press(Start, b)} :
           Ran(c, "press", b, Dispatched(Cur, b), Zero)

TrigSin == TrigPress("sin")

TrigCos == TrigPress("cos")

TrigMode == TrigPress("deg")

TrigZero == TrigPress("0")

TrigAdd == TrigPress("add")

TrigExchange == TrigPress("exch")

\* <KeyPress-Shift_L>
TrigShiftKey ==
    /\ presses < MaxTrig
    /\ \E c \in {shift(Start)} : Ran(c, "shift", "", "", Zero)

\* the stacks the trig buttons are pressed on
TrigStacks ==
    {<<>>, <<Num(7), Num(2)>>, <<Num(20)>>, <<Num(7), Num(50000)>>,
     <<Dec(TRUE, 0, 50000000)>>}

\* the calculator after mode presses that set the unit and the flag
InitTrig ==
    \E s \in TrigStacks : \E unit \in {RAD, DEG} : \E flag \in BOOLEAN :
    \E c \in {[Fresh([stack |-> s, entry |-> None])
                  EXCEPT !.angles = unit, !.hyper = flag]} :
        /\ stack = c.stack
        /\ entry = c.entry
        /\ memory = c.memory
        /\ angles = c.angles
        /\ hyper = c.hyper
        /\ err = c.err
        /\ shifted = c.shifted
        /\ shiftLock = c.shiftLock
        /\ disp = c.disp
        /\ draws = c.draws
        /\ last = [ev |-> "init", b |-> "", lam |-> "", ret |-> Zero,
                   after |-> "init", pos |-> 0,
                   ago |-> [b |-> "", shifted |-> FALSE, angles |-> RAD,
                            hyper |-> FALSE], exc |-> ""]
        /\ saved = [p \in Positions |-> Zero]
        /\ prev = c
        /\ base = <<>>
        /\ presses = 0

NextTrig ==
    \/ TrigSin
    \/ TrigCos
    \/ TrigMode
    \/ TrigZero
    \/ TrigAdd
    \/ TrigExchange
    \/ TrigShiftKey

SpecTrig == InitTrig /\ [][NextTrig]_vars

-----------------------------------------------------------------------------
(* What the claims read of a trig press *)

TrigPressed == last.ev = "press" /\ last.b \in TrigButtons

\* the stack before the press, a pending entry committed
TrigBefore ==
    IF prev.entry = None THEN prev.stack
    ELSE [prev.stack EXCEPT ![Len(prev.stack)] = NUMTYPE(prev.entry)]

\* the value the press popped, and the registers it left
TrigX == IF TrigBefore = <<>> THEN Zero ELSE TrigBefore[Len(TrigBefore)]

TrigRest ==
    IF TrigBefore = <<>> THEN <<>>
    ELSE SubSeq(TrigBefore, 1, Len(TrigBefore) - 1)

\* the name of the function the press selects by the flags in force
TrigSelected ==
    IF prev.shifted
    THEN IF prev.hyper THEN ihfunc(last.b) ELSE itfunc(last.b)
    ELSE IF prev.hyper THEN hfunc(last.b) ELSE tfunc(last.b)

\* the function selected raised on its argument
TrigRaised ==
    trigCall(TrigSelected,
             IF ~prev.shifted /\ prev.angles = DEG THEN radians(TrigX)
             ELSE TrigX).exc # ""

-----------------------------------------------------------------------------
(* C15 *)

\* C15: when the function a trig press selects raises a domain or arithmetic
\* error, in any angle unit and hyperbolic setting, the stack afterwards is
\* the value popped (not its angle in radians) on top of the other registers
\* as they were, and the error indicator is active.
C15_FailedTrigRestoresX ==
    (TrigPressed /\ TrigRaised) => (stack = Append(TrigRest, TrigX) /\ err)

\* Cosh of 50000 degrees overflows: 7, 50000 is left
C15_Witness ==
    /\ TrigPressed /\ TrigRaised
    /\ ~prev.shifted /\ prev.hyper /\ prev.angles = DEG
    /\ stack = <<Num(7), Num(50000)>> /\ err

-----------------------------------------------------------------------------
(* C16 *)

\* an argument at which no function modelled returns a decimal
C16_Plain == TrigX \notin {Zero, Dec(FALSE, 1, 0), Dec(TRUE, 1, 0)}

\* C16: the action applies the hyperbolic-forward function when the
\* hyperbolic flag is set and the forward function otherwise, to X converted
\* to radians exactly when the unit is DEG; the alternate applies the
\* hyperbolic-inverse or inverse function to X as it is and converts the
\* result to degrees exactly when the unit is DEG; the flags are those in
\* force when the button is pressed.
C16_TrigDispatch ==
    (TrigPressed /\ ~TrigRaised /\ C16_Plain) =>
        /\ Len(stack) = Len(TrigRest) + 1
        /\ [neg |-> stack[Len(stack)].neg, w |-> stack[Len(stack)].w,
            f |-> stack[Len(stack)].f]
               = [neg |-> TrigX.neg, w |-> TrigX.w, f |-> TrigX.f]
        /\ stack[Len(stack)].fn =
               IF prev.shifted
               THEN (IF prev.angles = DEG THEN "degrees " ELSE "")
                    \o TrigSelected
               ELSE TrigSelected
                    \o (IF prev.angles = DEG THEN " radians" ELSE "")

\* a mode press sets the flag, and Acosh of 20 is converted to degrees
C16_Witness ==
    /\ TrigPressed /\ prev.shifted /\ last.after = "press"
    /\ last.ago.b = "deg" /\ last.ago.hyper # prev.hyper
    /\ stack = <<[fn |-> "degrees acosh", neg |-> FALSE, w |-> 20, f |-> 0]>>

-----------------------------------------------------------------------------
(* C17 *)

\* C17: a trig press whose function returns a value >= 10^PRECISION without
\* raising pushes that value and leaves the error indicator off; the same
\* value returned by a one- or two-argument Operation is rejected: the
\* indicator is active, and '+' leaves its operands as they were.
C17_TrigUnchecked ==
    /\ (TrigPressed /\ ~TrigRaised) =>
           /\ ~err
           /\ Len(stack) = Len(TrigRest) + 1
           /\ (~prev.shifted /\ prev.hyper /\ prev.angles = RAD
                  /\ TrigX = Num(20))
                  => /\ stack[Len(stack)] = Term(hfunc(last.b), Num(20))
                     /\ AtLeastThreshold(stack[Len(stack)])
    /\ (OperationPress /\ Outcome.exc = "" /\ Outcome.value.fn # ""
           /\ AtLeastThreshold(Outcome.value))
           => (err /\ (last.lam = "add" => stack = Restored))

\* Cosh of 20 was pushed, and adding 0 to it is rejected
C17_Witness ==
    /\ OperationPress /\ last.lam = "add" /\ err
    /\ stack = <<Term("cosh", Num(20)), Zero>>

-----------------------------------------------------------------------------
(* C20 *)

\* C20 as claimed: after a failed press of a one- or two-argument Operation
\* button every register reads as it read before the press, a pending entry
\* committed; a register past the depth of the stack reads as 0.
C20_RegistersUnchanged ==
    (OperationPress /\ Failed(Outcome)) =>
        \A i \in 0..STACK :
            getRegister(Cur, i) = getRegister(finalizeEntry(prev), i)

-----------------------------------------------------------------------------
(* The engine before Application.initCalc binds it: Calculator.__init__    *)
(* leaves gui = None, and the first self.gui.<method> a call reaches       *)
(* raises AttributeError, which ends the call there.  A call yields the    *)
(* state it leaves and the exception it raised ("" for none).              *)

\* Calculator.finalizeEntry with gui = None
finalizeEntryUnbound(c) ==
    IF Falsy(c.entry) THEN [c |-> c, exc |-> ""]
    ELSE LET s == IF c.stack = <<>> THEN <<Zero>> ELSE c.stack
         IN  [c |-> [c EXCEPT
                        !.stack = [s EXCEPT
                                      ![Len(s)] = NUMTYPE(<<"0">> \o c.entry)],
                        !.entry = None],
              exc |-> "AttributeError"]

\* Calculator.push with gui = None
pushUnbound(c0, value, silent) ==
    The({ IF f.exc # "" THEN f
          ELSE [c |-> [f.c EXCEPT !.stack = Append(@, value)],
                exc |-> IF silent THEN "" ELSE "AttributeError"]
          : f \in {finalizeEntryUnbound(c0)} })

\* Calculator.pop with gui = None
popUnbound(c0, silent) ==
    The({ IF f.exc # "" THEN f
          ELSE [c |-> [f.c EXCEPT !.stack = IF @ = <<>> THEN @
                                            ELSE SubSeq(@, 1, Len(@) - 1)],
                exc |-> IF silent THEN "" ELSE "AttributeError"]
          : f \in {finalizeEntryUnbound(c0)} })

\* Calculator.enterDigit with gui = None
enterDigitUnbound(c0, digit) ==
    IF c0.entry = None THEN pushUnbound(c0, Zero, FALSE)
    ELSE LET p == partition(c0.entry)
             full == IF p.sep = "" THEN Len(p.whole) >= PRECISION
                     ELSE Len(p.dec) >= PRECISION
         IN  IF full THEN [c |-> c0, exc |-> ""]
             ELSE [c |-> [c0 EXCEPT !.entry = IF @ = <<"0">> THEN <<digit>>
                                              ELSE Append(@, digit)],
                   exc |-> "AttributeError"]

\* Calculator.decimal with gui = None
decimalUnbound(c0) ==
    IF Falsy(c0.entry) THEN pushUnbound(c0, Zero, FALSE)
    ELSE IF \E i \in 1..Len(c0.entry) : c0.entry[i] = "."
    THEN [c |-> c0, exc |-> ""]
    ELSE [c |-> [c0 EXCEPT !.entry = Append(@, ".")],
          exc |-> "AttributeError"]

\* Calculator.exchange with gui = None
exchangeUnbound(c0) ==
    The({ IF f.exc # "" THEN f
          ELSE LET x == getRegister(f.c, 0)
                   y == getRegister(f.c, 1)
                   rest == IF Len(f.c.stack) <= 2 THEN <<>>
                           ELSE SubSeq(f.c.stack, 1, Len(f.c.stack) - 2)
               IN  [c |-> [f.c EXCEPT !.stack = rest \o <<x, y>>],
                    exc |-> "AttributeError"]
          : f \in {finalizeEntryUnbound(c0)} })

\* Calculator.clearStack with gui = None
clearStackUnbound(c) ==
    [c |-> [c EXCEPT !.stack = <<>>, !.entry = None],
     exc |-> "AttributeError"]

\* Calculator.saveMemory with gui = None
saveMemoryUnbound(c0, pos) ==
    The({ IF f.exc # "" THEN f
          ELSE [c |-> [f.c EXCEPT
                          !.memory =
                              [(IF Len(@) < pos
                                THEN @ \o [i \in 1..(pos - Len(@)) |-> Zero]
                                ELSE @) EXCEPT ![pos] = getRegister(f.c, 0)]],
                exc |-> "AttributeError"]
          : f \in {finalizeEntryUnbound(c0)} })

MaxCalls == 3

\* A call that leaves r.c and raised r.exc has been made
Called(r, name) ==
    /\ presses < MaxCalls
    /\ Set(r.c)
    /\ last' = [ev |-> "call", b |-> "", lam |-> name, ret |-> Zero,
                after |-> last.ev, pos |-> 0, ago |-> Ago, exc |-> r.exc]
    /\ prev' = Cur
    /\ base' = base
    /\ saved' = saved
    /\ presses' = presses + 1

CallPush ==
    \E v \in {Num(3), Dec(FALSE, 5, 20000000)} : \E silent \in BOOLEAN :
        \E r \in {pushUnbound(Start, v, silent)} : Called(r, "push")

CallPop ==
    \E silent \in BOOLEAN : \E r \in {popUnbound(Start, silent)} :
        Called(r, "pop")

CallEnterDigit == \E r \in {enterDigitUnbound(Start, "5")} : Called(r, "5")

CallDecimal == \E r \in {decimalUnbound(Start)} : Called(r, "decimal")

CallExchange == \E r \in {exchangeUnbound(Start)} : Called(r, "exchange")

CallClearStack == \E r \in {clearStackUnbound(Start)} : Called(r, "clearStack")

CallSaveMemory ==
    \E pos \in {1, 2} : \E r \in {saveMemoryUnbound(Start, pos)} :
        Called(r, "saveMemory")

\* the variables when a run starts in state c with the entry started on bs
Begins(c, bs) ==
    /\ stack = c.stack
    /\ entry = c.entry
    /\ memory = c.memory
    /\ angles = c.angles
    /\ hyper = c.hyper
    /\ err = c.err
    /\ shifted = c.shifted
    /\ shiftLock = c.shiftLock
    /\ disp = c.disp
    /\ draws = c.draws
    /\ last = [ev |-> "init", b |-> "", lam |-> "", ret |-> Zero,
               after |-> "init", pos |-> 0,
               ago |-> [b |-> "", shifted |-> FALSE, angles |-> RAD,
                        hyper |-> FALSE], exc |-> ""]
    /\ saved = [p \in Positions |-> Zero]
    /\ prev = c
    /\ base = bs
    /\ presses = 0

\* Calculator.__init__: no display has been told anything
InitUnbound ==
    Begins([stack |-> <<>>, entry |-> None, memory |-> <<>>, angles |-> RAD,
            hyper |-> FALSE, err |-> FALSE, shifted |-> FALSE,
            shiftLock |-> FALSE, disp |-> <<>>, draws |-> 0], <<>>)

NextUnbound ==
    \/ CallPush
    \/ CallPop
    \/ CallEnterDigit
    \/ CallDecimal
    \/ CallExchange
    \/ CallClearStack
    \/ CallSaveMemory

SpecUnbound == InitUnbound /\ [][NextUnbound]_vars

-----------------------------------------------------------------------------
(* C21 *)

\* C21 as claimed: a mutating engine operation called while no gui is bound
\* fails with a fatal error, and the stack, the entry buffer and the memory
\* are as they were before the call.
C21_UnboundFailsFast ==
    last.ev = "call" =>
        /\ last.exc # ""
        /\ stack = prev.stack /\ entry = prev.entry /\ memory = prev.memory

-----------------------------------------------------------------------------
(* C22 *)

\* a constant button or a memory load ran while a text was pending
C22_Case ==
    /\ prev.entry # None
    /\ \/ last.ev = "press" /\ last.lam \in {"pushpi", "pushe"}
       \/ last.ev = "load"

\* the value that handler pushes
C22_Pushed ==
    IF last.ev = "load" THEN getMemory(prev, last.pos)
    ELSE IF last.lam = "pushpi" THEN Pi ELSE E

\* C22: Pi, the shifted Exp (e) or a memory load while Editing the text t
\* over the stack S leaves S, the value of t, the value pushed: the typed
\* value lies beneath the pushed one, neither lost nor overwritten.
C22_PushCommitsEntry ==
    C22_Case =>
        /\ entry = None
        /\ stack = base \o <<NUMTYPE(prev.entry), C22_Pushed>>
        /\ Len(stack) = Len(prev.stack) + 1

\* a load of the 3 saved at position 2, while "5" is typed over 7, 3
C22_Witness ==
    /\ C22_Case /\ last.ev = "load"
    /\ stack = <<Num(7), Num(3), Num(5), Num(3)>>

-----------------------------------------------------------------------------
(* C26 *)

\* a press of a button other than shift
C26_Other == last.ev = "press" /\ last.b # "shift"

\* that press was dispatched as shifted: AC cleared, e or x * Pi was pushed
C26_ShiftedEffect ==
    /\ last.lam = altlamOf(last.b) \/ altOf(last.b) = ""
    /\ last.b = "bs" => stack = <<>> /\ entry = None
    /\ last.b = "exp" => stack # <<>> /\ stack[Len(stack)] = E
    /\ last.b = "pi" => last.lam = "mulpi" /\ Len(stack) >= Len(prev.stack)
                        /\ stack[Len(stack)].fn \in {"", "mulpi"}

\* C26: the shift button turns shift and the lock on, and off again when
\* pressed while shifted; with the lock on, the next press of another button
\* is dispatched as shifted and leaves shift and lock off; shift held by the
\* Shift key, with no lock, stays on across presses until the key is
\* released.
C26_LatchedShift ==
    /\ (last.ev = "press" /\ last.b = "shift") =>
           IF prev.shifted THEN ~shifted /\ ~shiftLock
           ELSE shifted /\ shiftLock
    /\ (C26_Other /\ prev.shifted /\ prev.shiftLock) =>
           (~shifted /\ ~shiftLock /\ C26_ShiftedEffect)
    /\ (C26_Other /\ prev.shifted /\ ~prev.shiftLock) =>
           (shifted /\ ~shiftLock /\ C26_ShiftedEffect)
    /\ (C26_Other /\ ~prev.shifted) => (~shifted /\ ~shiftLock)
    /\ last.ev = "shift" => shifted /\ shiftLock = prev.shiftLock
    /\ last.ev = "unshift" => ~shifted /\ ~shiftLock

\* the press after the shift button: AC, and shift and lock are off
C26_Witness ==
    /\ C26_Other /\ last.b = "bs" /\ last.ago.b = "shift"
    /\ prev.shifted /\ prev.shiftLock /\ prev.stack # <<>>
    /\ ~shifted /\ ~shiftLock /\ stack = <<>>

-----------------------------------------------------------------------------
(* C30 *)

\* C30: shiftLock is true only if shifted is true; whatever turns shift off
\* (the key release, the release after a latched press, a memory click, the
\* shift button while shifted) leaves the lock off.
C30_LockImpliesShift ==
    /\ shiftLock => shifted
    /\ (prev.shifted /\ ~shifted) => ~shiftLock

\* a click on a memory display releases a latched shift
C30_Witness ==
    /\ last.ev = "save" /\ prev.shifted /\ prev.shiftLock
    /\ ~shifted /\ ~shiftLock

-----------------------------------------------------------------------------
(* C23 *)

\* a press of a one- or two-argument Operation button succeeded
C23_Success == OperationPress /\ ~Failed(Outcome) /\ ~err

\* the committed stack without its top n elements
C23_Below(n) == SubSeq(Committed, 1, Len(Committed) - n)

\* C23 as claimed: a successful two-argument press on a stack of depth >= 2
\* replaces X and Y by the single result (depth decreases by exactly one), a
\* successful one-argument press replaces X by the result (depth unchanged);
\* the elements below the operands, the memory bank and the mode flags are
\* unchanged, and a pending entry is committed and used as X.
C23_SuccessFrame ==
    C23_Success =>
        /\ (Args(last.lam) = 2 /\ Len(Committed) >= 2) =>
               /\ Len(stack) = Len(Committed) - 1
               /\ stack = Append(C23_Below(2), Outcome.value)
        /\ (Args(last.lam) = 1 /\ Len(Committed) >= 1) =>
               /\ Len(stack) = Len(Committed)
               /\ stack = Append(C23_Below(1), Outcome.value)
        /\ memory = prev.memory
        /\ angles = prev.angles /\ hyper = prev.hyper
        /\ entry = None
        /\ prev.entry # None => PoppedX.value = NUMTYPE(prev.entry)

-----------------------------------------------------------------------------
(* C25 *)

\* C25 as claimed: the shifted exchange button, popX, removes exactly the X
\* register: a stack S followed by x becomes S, an empty stack stays empty,
\* and the error indicator stays inactive.
C25_PopXRemovesX ==
    (last.ev = "press" /\ last.lam = "pop") =>
        /\ stack = IF Committed = <<>> THEN <<>> ELSE C23_Below(1)
        /\ ~err

-----------------------------------------------------------------------------
(* C24 *)

\* the exchange button was pressed, unshifted
C24_Case == last.ev = "press" /\ last.lam = "exchange"

\* C24 as claimed: exchange emits exactly one stack-changed notification per
\* call, whether the entry buffer is Idle or Editing.
C24_Original == C24_Case => draws = 1

\* C24: exchange called while Idle emits exactly one stack-changed
\* notification, that of its final push; called while Editing it emits two,
\* the first from the commit of the entry by finalizeEntry.  Its pops and its
\* first push are silent, and the last notification shows the swapped stack.
C24_ExchangeNotifies ==
    C24_Case =>
        /\ draws = IF prev.entry = None THEN 1 ELSE 2
        /\ disp = drawStack(Cur).disp

\* exchange pressed while "5" was typed over 3: two notifications
C24_Witness ==
    /\ C24_Case /\ prev.entry # None /\ draws = 2
    /\ Len(stack) >= 2 /\ stack[Len(stack)] = Num(3)

-----------------------------------------------------------------------------
(* C27 *)

\* C27: whenever the entry buffer is Editing, the stack is non-empty and its
\* top element is the placeholder 0 pushed when the entry began; the handler
\* that ran last therefore never found a pending entry over an empty stack,
\* so finalizeEntry never took its 'push 0 if the stack is empty' branch.
C27_PlaceholderUnderEntry ==
    /\ entry # None => (stack # <<>> /\ stack[Len(stack)] = Zero)
    /\ prev.entry # None => prev.stack # <<>>

\* an entry begun by '.' on the empty stack: the placeholder is all there is
C27_Witness ==
    /\ entry = <<"0", ".">> /\ stack = <<Zero>>
    /\ last.ev = "press" /\ last.b = "dec"
    /\ prev.entry = None /\ prev.stack = <<>>

-----------------------------------------------------------------------------
(* C28 *)

\* a press, a memory key or click, or a clear has completed
C28_Case == last.ev \in {"press", "save", "load", "escape"}

\* the registers and the memory bank as drawStack would show them now
C28_Registers == [x \in 1..STACK |-> getRegister(Cur, x - 1)]

C28_Memory == [x \in 1..MEMORY |-> getMemory(Cur, x)]

\* C28: after every press, memory key or clear, what the display was last
\* told matches the calculator: while Editing the X display shows the entry
\* text, otherwise the registers displayed are registers 0..3 of the stack;
\* the memory displayed is the memory bank, and the registers above X are
\* those of the stack in either case.
C28_DisplayConsistent ==
    C28_Case =>
        /\ disp.mem = C28_Memory
        /\ \A x \in 2..STACK : disp.regs[x] = C28_Registers[x]
        /\ IF entry # None THEN disp.text = entry
           ELSE disp.text = None /\ disp.regs = C28_Registers

\* x<>y pressed while "5" was typed over 7, 3: silent pops and a silent push,
\* and the display shows 7, 5, 3
C28_Witness ==
    /\ C28_Case /\ last.lam = "exchange" /\ prev.entry # None
    /\ stack = <<Num(7), Num(5), Num(3)>>
    /\ disp.regs[1] = Num(3) /\ disp.regs[2] = Num(5) /\ disp.regs[3] = Num(7)

-----------------------------------------------------------------------------
(* C29 *)

\* C29: the memory bank is changed only by saveMemory: every button press
\* (digits, operations, trig, mode toggle, exchange, pop, Enter, AC), every
\* load and every clear leaves each memory position as it was, and the bank
\* never shrinks.
C29_OnlySaveChangesMemory ==
    /\ last.ev # "save" => memory = prev.memory
    /\ Len(memory) >= Len(prev.memory)
    /\ \A p \in 1..Len(prev.memory) :
           (last.ev = "save" /\ last.pos # p) => memory[p] = prev.memory[p]

\* the stack is cleared and the 3 saved at position 2 stays in the bank
C29_Witness ==
    /\ last.lam = "clearStack" /\ prev.stack # <<>> /\ stack = <<>>
    /\ prev.memory = <<Zero, Num(3)>> /\ memory = <<Zero, Num(3)>>

====
